---- MODULE Spec2Model ----
(***************************************************************************)
(* Calculadora de Ingreso Real (src/App.tsx): the forward calculator       *)
(* `results`, the inverse simulator `simulatorResults`, the input handlers *)
(* and the rate table of src/constants.ts.                                 *)
(*                                                                         *)
(* Every quantity of the program is a JavaScript Number, an IEEE-754       *)
(* binary64 value, and *, +, -, / round to nearest, ties to even.  The     *)
(* model keeps that arithmetic: a finite Number is the record              *)
(*     [k |-> "fin", neg |-> sign, m |-> magnitude, e |-> exponent]        *)
(* of value (-1)^neg * m * 2^e, where m is a natural number of at most 53  *)
(* bits that is odd (or zero, with e = 0), so that equal values are equal  *)
(* records.  m is written as a sequence of limbs of radix 2^15, least      *)
(* significant first, without leading zero limbs.  NaN and the infinities  *)
(* are the records [k |-> "nan"] and [k |-> "inf", neg |-> sign].          *)
(* Overflow to Infinity (2^1024 and above) is modelled where the program   *)
(* can reach it, in parseInt of a long digit string; the other amounts of  *)
(* this program lie between 2^-60 and 2^60, so that the arithmetic neither *)
(* overflows nor reaches the subnormals below 2^-1022.                     *)
(***************************************************************************)
EXTENDS Integers, Sequences, FiniteSets, TLC

----------------------------------------------------------------------------
(* Natural numbers of any size, as limb sequences.                         *)

Base == 32768
LimbBits == 15
Precision == 53

Min(a, b) == IF a < b THEN a ELSE b
Max(a, b) == IF a > b THEN a ELSE b

Pow2(n) == 2^n

RECURSIVE BNorm(_)
BNorm(a) ==
  IF a = <<>> THEN <<>>
  ELSE IF a[Len(a)] = 0 THEN BNorm(SubSeq(a, 1, Len(a) - 1)) ELSE a

RECURSIVE BFromInt(_)
BFromInt(n) == IF n = 0 THEN <<>> ELSE <<n % Base>> \o BFromInt(n \div Base)

Limb(a, i) == IF i <= Len(a) THEN a[i] ELSE 0

RECURSIVE BAddC(_, _, _, _)
BAddC(a, b, i, c) ==
  IF i > Len(a) /\ i > Len(b) THEN (IF c = 0 THEN <<>> ELSE <<c>>)
  ELSE LET x == Limb(a, i) + Limb(b, i) + c
       IN  <<x % Base>> \o BAddC(a, b, i + 1, x \div Base)

BAdd(a, b) == BAddC(a, b, 1, 0)

\* a - b for a >= b
RECURSIVE BSubC(_, _, _, _)
BSubC(a, b, i, c) ==
  IF i > Len(a) THEN <<>>
  ELSE LET x == a[i] - Limb(b, i) - c
       IN  IF x < 0 THEN <<x + Base>> \o BSubC(a, b, i + 1, 1)
           ELSE <<x>> \o BSubC(a, b, i + 1, 0)

BSub(a, b) == BNorm(BSubC(a, b, 1, 0))

\* -1, 0, 1 as a < b, a = b, a > b
RECURSIVE BCmpAt(_, _, _)
BCmpAt(a, b, i) ==
  IF i = 0 THEN 0
  ELSE IF a[i] < b[i] THEN -1
  ELSE IF a[i] > b[i] THEN 1
  ELSE BCmpAt(a, b, i - 1)

BCmp(a, b) ==
  IF Len(a) < Len(b) THEN -1
  ELSE IF Len(a) > Len(b) THEN 1
  ELSE BCmpAt(a, b, Len(a))

\* a * d + c for a limb d
RECURSIVE BMulSmallC(_, _, _, _)
BMulSmallC(a, d, i, c) ==
  IF i > Len(a) THEN (IF c = 0 THEN <<>> ELSE <<c>>)
  ELSE LET x == a[i] * d + c
       IN  <<x % Base>> \o BMulSmallC(a, d, i + 1, x \div Base)

BMulSmall(a, d) == IF d = 0 THEN <<>> ELSE BMulSmallC(a, d, 1, 0)

\* p * Base^i + a[1..i] * b, limb i of a down to limb 1
RECURSIVE BMulAt(_, _, _, _)
BMulAt(a, b, i, p) ==
  IF i = 0 THEN p
  ELSE IF p = <<>> THEN BMulAt(a, b, i - 1, BMulSmall(b, a[i]))
  ELSE BMulAt(a, b, i - 1, BAdd(BMulSmall(b, a[i]), <<0>> \o p))

BMul(a, b) == IF b = <<>> THEN <<>> ELSE BMulAt(a, b, Len(a), <<>>)

\* p * 10^k
RECURSIVE BTimesPow10(_, _)
BTimesPow10(p, k) ==
  IF k = 0 \/ p = <<>> THEN p ELSE BTimesPow10(BMulSmall(p, 10), k - 1)

\* 10^k
BPow10(k) == BTimesPow10(<<1>>, k)

RECURSIVE Zeros(_)
Zeros(n) == IF n = 0 THEN <<>> ELSE <<0>> \o Zeros(n - 1)

\* a * 2^n
BShl(a, n) ==
  IF a = <<>> THEN <<>>
  ELSE Zeros(n \div LimbBits) \o BMulSmall(a, Pow2(n % LimbBits))

\* floor(a / 2^n): limb i of the result is made of limbs i + q and i + q + 1 of a
RECURSIVE BShrAt(_, _, _, _)
BShrAt(a, q, r, i) ==
  IF i + q > Len(a) THEN <<>>
  ELSE <<(a[i + q] \div Pow2(r)) + (Limb(a, i + q + 1) % Pow2(r)) * Pow2(LimbBits - r)>>
       \o BShrAt(a, q, r, i + 1)

BShr(a, n) == BNorm(BShrAt(a, n \div LimbBits, n % LimbBits, 1))

\* the number of bits of a limb n
IntBitLen(n) == CHOOSE k \in 0..LimbBits : n < Pow2(k) /\ (k = 0 \/ Pow2(k - 1) <= n)

BBitLen(a) ==
  IF a = <<>> THEN 0 ELSE (Len(a) - 1) * LimbBits + IntBitLen(a[Len(a)])

\* bit i of a, bit 0 the least significant
BBit(a, i) == (Limb(a, (i \div LimbBits) + 1) \div Pow2(i % LimbBits)) % 2

\* are the n low bits of a all zero
BLowZero(a, n) ==
  /\ \A i \in 1..(n \div LimbBits) : Limb(a, i) = 0
  /\ Limb(a, (n \div LimbBits) + 1) % Pow2(n % LimbBits) = 0

\* the number of trailing zero bits of a limb n > 0
IntTrailingZeros(n) ==
  CHOOSE k \in 0..(LimbBits - 1) : n % Pow2(k) = 0 /\ n % Pow2(k + 1) # 0

RECURSIVE BTrailingZerosAt(_, _)
BTrailingZerosAt(a, i) ==
  IF a[i] = 0 THEN LimbBits + BTrailingZerosAt(a, i + 1)
  ELSE IntTrailingZeros(a[i])

\* the number of trailing zero bits of a > 0
BTrailingZeros(a) == BTrailingZerosAt(a, 1)

\* the largest limb d with d * b <= r, from an estimate d that is not too small
RECURSIVE FixDigit(_, _, _)
FixDigit(b, r, d) ==
  IF BCmp(BMulSmall(b, d), r) > 0 THEN FixDigit(b, r, d - 1) ELSE d

\* long division of a by b, limb i of a down to limb 1, for b with its top bit
\* set in its top limb: the quotient limb is estimated from the two top limbs
\* of the running remainder r (r < b on entry and after every step) and then
\* corrected
RECURSIVE BDivModAt(_, _, _, _, _)
BDivModAt(a, b, i, q, r) ==
  IF i = 0 THEN [q |-> BNorm(q), r |-> r]
  ELSE LET n == Len(b)
           r2 == BNorm(<<a[i]>> \o r)
           est == (Limb(r2, n + 1) * Base + Limb(r2, n)) \div b[n]
           d == FixDigit(b, r2, Min(est, Base - 1))
           r3 == BSub(r2, BMulSmall(b, d))
       IN  IF BCmp(r3, b) < 0 /\ Len(q) < Len(a)
           THEN BDivModAt(a, b, i - 1, <<d>> \o q, r3)
           ELSE [q |-> <<>>, r |-> <<>>]

\* floor(a / b) and a mod b for b > 0
BDivMod(a, b) ==
  LET Unshift(qr, s) == [q |-> qr.q, r |-> BShr(qr.r, s)]
      Divide(A, B, s) == Unshift(BDivModAt(A, B, Len(A), <<>>, <<>>), s)
      Normalised(s) == Divide(BShl(a, s), BShl(b, s), s)
  IN  Normalised(LimbBits - IntBitLen(b[Len(b)]))

----------------------------------------------------------------------------
(* JavaScript Numbers: IEEE-754 binary64, round to nearest, ties to even.  *)

NaN == [k |-> "nan"]
Inf(neg) == [k |-> "inf", neg |-> neg]
FZero(neg) == [k |-> "fin", neg |-> neg, m |-> <<>>, e |-> 0]

IsNaN(a) == a.k = "nan"
IsInf(a) == a.k = "inf"
IsFin(a) == a.k = "fin"
IsZero(a) == a.k = "fin" /\ a.m = <<>>

\* the Number of value (-1)^neg * M * 2^e for M of at most 53 bits
Canon(neg, M, e) ==
  LET Odd(tz) == [k |-> "fin", neg |-> neg, m |-> BShr(M, tz), e |-> e + tz]
  IN  IF M = <<>> THEN FZero(neg) ELSE Odd(BTrailingZeros(M))

\* the Number nearest to (-1)^neg * (M + t) * 2^e, where 0 < t < 1 if sticky
\* and t = 0 otherwise; a sticky M has more than 54 bits
RoundBig(neg, M, e, sticky) ==
  LET Up(s, q) ==
        /\ BBit(M, s - 1) = 1
        /\ (sticky \/ ~BLowZero(M, s - 1) \/ BBit(q, 0) = 1)
      Nearest(s, q) == IF Up(s, q) THEN BAddC(q, <<1>>, 1, 0) ELSE q
      Shifted(s) ==
        IF s <= 0 THEN Canon(neg, M, e) ELSE Canon(neg, Nearest(s, BShr(M, s)), e + s)
  IN  IF M = <<>> THEN FZero(neg) ELSE Shifted(BBitLen(M) - Precision)

FromInt(n) == IF n < 0 THEN Canon(TRUE, BFromInt(-n), 0) ELSE Canon(FALSE, BFromInt(n), 0)

FNeg(a) == IF IsNaN(a) THEN a ELSE [a EXCEPT !.neg = ~a.neg]

\* a * b
FMul(a, b) ==
  IF IsNaN(a) \/ IsNaN(b) THEN NaN
  ELSE IF IsInf(a) \/ IsInf(b)
       THEN (IF IsZero(a) \/ IsZero(b) THEN NaN ELSE Inf(a.neg # b.neg))
  ELSE RoundBig(a.neg # b.neg, BMul(a.m, b.m), a.e + b.e, FALSE)

\* -1, 0, 1 as |a| < |b|, |a| = |b|, |a| > |b|, for finite a and b
CmpMag(a, b) ==
  IF a.m = <<>> THEN (IF b.m = <<>> THEN 0 ELSE -1)
  ELSE IF b.m = <<>> THEN 1
  ELSE LET Aligned(lo) == BCmp(BShl(a.m, a.e - lo), BShl(b.m, b.e - lo))
           Tops(ta, tb) ==
             IF ta < tb THEN -1 ELSE IF ta > tb THEN 1 ELSE Aligned(Min(a.e, b.e))
       IN  Tops(BBitLen(a.m) + a.e, BBitLen(b.m) + b.e)

\* a + b
FAdd(a, b) ==
  IF IsNaN(a) \/ IsNaN(b) THEN NaN
  ELSE IF IsInf(a) THEN (IF IsInf(b) /\ a.neg # b.neg THEN NaN ELSE a)
  ELSE IF IsInf(b) THEN b
  ELSE IF IsZero(a) /\ IsZero(b) THEN FZero(a.neg /\ b.neg)
  ELSE IF IsZero(a) THEN b
  ELSE IF IsZero(b) THEN a
  ELSE LET Magnitude(A, B, c) ==
             IF a.neg = b.neg THEN BAdd(A, B)
             ELSE IF c > 0 THEN BSub(A, B) ELSE BSub(B, A)
           Signed(A, B, lo, c) ==
             IF a.neg # b.neg /\ c = 0 THEN FZero(FALSE)
             ELSE RoundBig(IF c >= 0 THEN a.neg ELSE b.neg, Magnitude(A, B, c), lo, FALSE)
           Compared(A, B, lo) == Signed(A, B, lo, BCmp(A, B))
           Aligned(lo) == Compared(BShl(a.m, a.e - lo), BShl(b.m, b.e - lo), lo)
       IN  Aligned(Min(a.e, b.e))

\* a - b
FSub(a, b) == FAdd(a, FNeg(b))

\* the Number nearest to (-1)^neg * (N / D) * 2^e, for naturals N > 0 and D > 0:
\* the quotient is taken to at least 55 bits, the remainder is the sticky bit
DivRound(neg, N, D, e) ==
  LET Rounded(qr, sh) ==
        IF qr.r = <<>> THEN RoundBig(neg, qr.q, e - sh, FALSE)
        ELSE RoundBig(neg, qr.q, e - sh, TRUE)
      Shifted(sh) == Rounded(BDivMod(BShl(N, sh), D), sh)
  IN  Shifted(Max(Precision + 2 + BBitLen(D) - BBitLen(N), 0))

\* a / b
FDiv(a, b) ==
  IF IsNaN(a) \/ IsNaN(b) THEN NaN
  ELSE IF IsInf(a) THEN (IF IsInf(b) THEN NaN ELSE Inf(a.neg # b.neg))
  ELSE IF IsInf(b) THEN FZero(a.neg # b.neg)
  ELSE IF IsZero(b) THEN (IF IsZero(a) THEN NaN ELSE Inf(a.neg # b.neg))
  ELSE IF IsZero(a) THEN FZero(a.neg # b.neg)
  ELSE DivRound(a.neg # b.neg, a.m, b.m, a.e - b.e)

\* -1, 0, 1 as a < b, a = b, a > b, for a and b other than NaN
FCmp(a, b) ==
  IF IsInf(a) THEN (IF IsInf(b) /\ a.neg = b.neg THEN 0 ELSE IF a.neg THEN -1 ELSE 1)
  ELSE IF IsInf(b) THEN (IF b.neg THEN 1 ELSE -1)
  ELSE IF IsZero(a) /\ IsZero(b) THEN 0
  ELSE IF a.neg # b.neg THEN (IF a.neg THEN -1 ELSE 1)
  ELSE CmpMag(IF a.neg THEN b ELSE a, IF a.neg THEN a ELSE b)

\* the comparisons of JavaScript: every comparison with NaN is false
FLt(a, b) == ~IsNaN(a) /\ ~IsNaN(b) /\ FCmp(a, b) < 0
FGt(a, b) == ~IsNaN(a) /\ ~IsNaN(b) /\ FCmp(a, b) > 0
FLe(a, b) == ~IsNaN(a) /\ ~IsNaN(b) /\ FCmp(a, b) <= 0
FGe(a, b) == ~IsNaN(a) /\ ~IsNaN(b) /\ FCmp(a, b) >= 0
FEq(a, b) == ~IsNaN(a) /\ ~IsNaN(b) /\ FCmp(a, b) = 0

\* is |x - y| * 10^k <= |y|, in exact arithmetic, for finite x and y
Within(x, y, k) ==
  /\ IsFin(x) /\ IsFin(y)
  /\ LET Distance(X, Y) ==
           IF x.neg # y.neg THEN BAdd(X, Y)
           ELSE IF BCmp(X, Y) >= 0 THEN BSub(X, Y) ELSE BSub(Y, X)
         Compared(X, Y) == BCmp(BTimesPow10(Distance(X, Y), k), Y) <= 0
         Aligned(lo) == Compared(BShl(x.m, x.e - lo), BShl(y.m, y.e - lo))
     IN  Aligned(Min(x.e, y.e))

----------------------------------------------------------------------------
(* Text of an input field: a sequence of one-character strings.            *)

Digits == <<"0", "1", "2", "3", "4", "5", "6", "7", "8", "9">>

IsDigit(c) == \E i \in 1..10 : Digits[i] = c
DigitValue(c) == (CHOOSE i \in 1..10 : Digits[i] = c) - 1

\* String.prototype.replace(/\D/g, ''): the digits of the text, in order
StripNonDigits(t) == SelectSeq(t, IsDigit)

\* the natural number below 10^4 that the k digits t[i], ..., t[i + k - 1] write
RECURSIVE DigitsValue(_, _, _)
DigitsValue(t, i, k) ==
  IF k = 0 THEN 0 ELSE DigitsValue(t, i, k - 1) * 10 + DigitValue(t[i + k - 1])

\* n * 10^(Len(t) - i + 1) + the natural number that the digits t[i..] write,
\* four digits at a step
RECURSIVE BFromDigitsAt(_, _, _)
BFromDigitsAt(t, i, n) ==
  IF i > Len(t) THEN n
  ELSE LET Step(k) ==
             IF n = <<>> THEN BFromDigitsAt(t, i + k, BFromInt(DigitsValue(t, i, k)))
             ELSE BFromDigitsAt(t, i + k,
                                BAdd(BMulSmall(n, 10^k), BFromInt(DigitsValue(t, i, k))))
       IN  Step(Min(4, Len(t) - i + 1))

\* the natural number a digit string writes in base 10
BFromDigits(t) == BFromDigitsAt(t, 1, <<>>)

\* a Number of 2^1024 or more is Infinity
Overflow(x) ==
  IF IsFin(x) /\ x.m # <<>> /\ BBitLen(x.m) + x.e > 1024 THEN Inf(x.neg) ELSE x

StartsWith(t, c) == t # <<>> /\ Head(t) = c

\* the digit string t without its leading zeros
RECURSIVE DropZeros(_)
DropZeros(t) == IF StartsWith(t, "0") THEN DropZeros(Tail(t)) ELSE t

\* parseInt(numericStr, 10) of a digit string: the nearest Number; a string of
\* more than 309 significant digits writes a number above 10^309 > 2^1024
ParseInt(t) ==
  IF Len(DropZeros(t)) > 309 THEN Inf(FALSE)
  ELSE Overflow(RoundBig(FALSE, BFromDigits(t), 0, FALSE))

parseInputValue(displayVal) ==
  LET numericStr == StripNonDigits(displayVal)
  IN  IF numericStr # <<>> THEN ParseInt(numericStr) ELSE FromInt(0)

\* the longest prefix of t made of digits
RECURSIVE LeadingDigits(_)
LeadingDigits(t) ==
  IF t # <<>> /\ IsDigit(Head(t)) THEN <<Head(t)>> \o LeadingDigits(Tail(t)) ELSE <<>>

Drop(t, n) == SubSeq(t, n + 1, Len(t))

IsPrefix(p, t) == Len(p) <= Len(t) /\ SubSeq(t, 1, Len(p)) = p

RECURSIVE TrimStart(_)
TrimStart(t) == IF StartsWith(t, " ") THEN TrimStart(Tail(t)) ELSE t

\* the Number nearest to (-1)^neg * N * 10^p
Decimal(neg, N, p) ==
  IF N = <<>> THEN FZero(neg)
  ELSE IF p >= 0 THEN RoundBig(neg, BTimesPow10(N, p), 0, FALSE)
  ELSE DivRound(neg, N, BPow10(-p), 0)

\* the value of the exponent part at the head of t (e or E, an optional sign,
\* at least one digit), 0 when t does not start with one; exponents below 2^15
ExponentOf(t) ==
  IF ~(StartsWith(t, "e") \/ StartsWith(t, "E")) THEN 0
  ELSE LET Limb1(v) == IF v = <<>> THEN 0 ELSE v[1]
           Value(ds) == Limb1(BFromDigits(ds))
           Unsigned(u) == Value(LeadingDigits(u))
           Signed(u) ==
             IF StartsWith(u, "-") THEN -Unsigned(Tail(u))
             ELSE Unsigned(IF StartsWith(u, "+") THEN Tail(u) ELSE u)
       IN  Signed(Tail(t))

\* parseFloat(valStr): the longest prefix of the trimmed text that is a decimal
\* literal (sign, digits, fraction, exponent) or Infinity; NaN when there is none
parseFloat(valStr) ==
  LET Value(neg, ds, frac, w) ==
        IF ds = <<>> THEN NaN
        ELSE Decimal(neg, BFromDigits(ds), ExponentOf(w) - Len(frac))
      Fraction(neg, int, v, frac) ==
        Value(neg, int \o frac, frac,
              IF StartsWith(v, ".") /\ (int # <<>> \/ frac # <<>>)
              THEN Drop(v, Len(frac) + 1) ELSE v)
      Point(neg, int, v) ==
        Fraction(neg, int, v, IF StartsWith(v, ".") THEN LeadingDigits(Tail(v)) ELSE <<>>)
      Integer(neg, u, int) == Point(neg, int, Drop(u, Len(int)))
      Unsigned(neg, u) ==
        IF IsPrefix(<<"I", "n", "f", "i", "n", "i", "t", "y">>, u) THEN Inf(neg)
        ELSE Integer(neg, u, LeadingDigits(u))
      Signed(t) ==
        Unsigned(StartsWith(t, "-"),
                 IF StartsWith(t, "-") \/ StartsWith(t, "+") THEN Tail(t) ELSE t)
  IN  Signed(TrimStart(valStr))

----------------------------------------------------------------------------
(* src/constants.ts and src/types.ts                                       *)

\* a decimal literal n / 10^k of the source: the Number nearest to it
Literal(n, k) == Decimal(FALSE, BFromInt(n), -k)

RiskLevel == {"I", "II", "III", "IV", "V"}

IBC_PERCENTAGE == Literal(40, 2)
\* a faulty variant of HEALTH_RATE: 12 %
HEALTH_RATE_TwelvePercent == Literal(12, 2)

HEALTH_RATE == Literal(125, 3)
PENSION_RATE == Literal(16, 2)

\* a faulty variant of ARL_RATES: class V with the rate of class IV
ARL_RATES_WithoutClassV ==
  [rl \in RiskLevel |->
     CASE rl = "I" -> Literal(522, 5)
       [] rl = "II" -> Literal(1044, 5)
       [] rl = "III" -> Literal(2436, 5)
       [] rl = "IV" -> Literal(4350, 5)
       [] rl = "V" -> Literal(4350, 5)]

ARL_RATES ==
  [r \in RiskLevel |->
     CASE r = "I" -> Literal(522, 5)
       [] r = "II" -> Literal(1044, 5)
       [] r = "III" -> Literal(2436, 5)
       [] r = "IV" -> Literal(4350, 5)
       [] r = "V" -> Literal(6960, 5)]

\* a faulty variant of VACATION_PROVISION_RATE: the percentage, not the fraction
VACATION_PROVISION_RATE_AsPercent == Literal(417, 2)

VACATION_PROVISION_RATE == Literal(417, 4)
SEVERANCE_PROVISION_RATE == Literal(933, 4)

\* the module src/constants.ts as loaded
RateTable ==
  [IBC_PERCENTAGE |-> IBC_PERCENTAGE,
   HEALTH_RATE |-> HEALTH_RATE,
   PENSION_RATE |-> PENSION_RATE,
   ARL_RATES |-> ARL_RATES,
   VACATION_PROVISION_RATE |-> VACATION_PROVISION_RATE,
   SEVERANCE_PROVISION_RATE |-> SEVERANCE_PROVISION_RATE]

----------------------------------------------------------------------------
(* src/App.tsx                                                             *)

VARIABLES
  contractValue,          \* useState<number>(3200000)
  riskLevel,              \* useState<RiskLevel>(RiskLevel.I)
  contractualRiskPercent, \* useState<number>(10.0)
  desiredNetIncome,       \* useState<number>(2800000)
  results,                \* the memoised CalculationResults
  simulatorResults,       \* the memoised {requiredGross, difference}
  rates,                  \* the exported bindings of src/constants.ts
  snapshot,               \* history: an earlier evaluation of `results`, with its inputs
  pc,                     \* "init" before the first render, "render" after it
  doc                     \* the document of the last report saved, <<>> when none

vars ==
  <<contractValue, riskLevel, contractualRiskPercent, desiredNetIncome,
    results, simulatorResults, rates, snapshot, pc, doc>>

\* the statements of the useMemo of `results`, one operator each
ibc(cv) == FMul(cv, rates.IBC_PERCENTAGE)

health(base) == FMul(base, rates.HEALTH_RATE)

pension(base) == FMul(base, rates.PENSION_RATE)

\* a faulty variant of arl: the rate applied to no less than a minimum base
arlOnMinimumBase(base, rl) ==
  FMul(IF FLt(base, FromInt(1300000)) THEN FromInt(1300000) ELSE base,
       rates.ARL_RATES[rl])

\* the value `undefined`
Undefined == [k |-> "undefined"]

\* obj[key]: `undefined` when obj has no property named key
Property(obj, key) == IF key \in DOMAIN obj THEN obj[key] ELSE Undefined

\* the conversion of an operand of * to a Number: `undefined` becomes NaN
ToNumber(v) == IF v = Undefined THEN NaN ELSE v

arl(base, rl) == FMul(base, ToNumber(Property(rates.ARL_RATES, rl)))

vacationProvision(cv) == FMul(cv, rates.VACATION_PROVISION_RATE)

severanceProvision(cv) == FMul(cv, rates.SEVERANCE_PROVISION_RATE)

\* a faulty variant of contractualRiskRate: the percentage used as a fraction
contractualRiskRateUnscaled(pct) == pct

contractualRiskRate(pct) == FDiv(pct, FromInt(100))

\* a faulty variant of contractualRiskProvision: a tenth of the contract value
\* whatever the rate
contractualRiskProvisionOfTenth(cv, rate) == FMul(cv, Literal(1, 1))

contractualRiskProvision(cv, rate) == FMul(cv, rate)

totalSocialSecurity(h, p, a) == FAdd(FAdd(h, p), a)

totalProvisions(v, s, c) == FAdd(FAdd(v, s), c)

\* a faulty variant of totalCosts: the provisions left out
totalCostsWithoutProvisions(tss, tp) == tss

totalCosts(tss, tp) == FAdd(tss, tp)

\* a faulty variant of netIncome: the operands exchanged
netIncomeReversed(cv, tc) == FSub(tc, cv)

netIncome(cv, tc) == FSub(cv, tc)

\* a faulty variant of nonDisposablePercent: the branch on contractValue > 0
\* left out
nonDisposablePercentUnguarded(cv, tc) == FMul(FDiv(tc, cv), FromInt(100))

nonDisposablePercent(cv, tc) ==
  IF FGt(cv, FromInt(0)) THEN FMul(FDiv(tc, cv), FromInt(100)) ELSE FromInt(0)

\* the forward calculator: the body of the useMemo of `results`
Results(cv, rl, pct) ==
  LET Return(base, h, p, a, v, s, c, tss, tp, tc) ==
        [contractValue |-> cv,
         ibc |-> base,
         health |-> h,
         pension |-> p,
         arl |-> a,
         vacationProvision |-> v,
         severanceProvision |-> s,
         contractualRiskProvision |-> c,
         totalSocialSecurity |-> tss,
         totalProvisions |-> tp,
         totalCosts |-> tc,
         netIncome |-> netIncome(cv, tc),
         nonDisposablePercent |-> nonDisposablePercent(cv, tc)]
      Costs(base, h, p, a, v, s, c, tss, tp) ==
        Return(base, h, p, a, v, s, c, tss, tp, totalCosts(tss, tp))
      Totals(base, h, p, a, v, s, c) ==
        Costs(base, h, p, a, v, s, c, totalSocialSecurity(h, p, a),
              totalProvisions(v, s, c))
      Provisions(base, h, p, a) ==
        Totals(base, h, p, a, vacationProvision(cv), severanceProvision(cv),
               contractualRiskProvision(cv, contractualRiskRate(pct)))
      SocialSecurity(base) ==
        Provisions(base, health(base), pension(base), arl(base, rl))
  IN  SocialSecurity(ibc(cv))

\* the statements of the useMemo of `simulatorResults`
\* a faulty variant of costFactor: the provisions left out of the costs
costFactorOfSocialSecurity(res) ==
  IF FGt(res.contractValue, FromInt(0))
  THEN FDiv(res.totalSocialSecurity, res.contractValue)
  ELSE FromInt(0)

\* a faulty variant of costFactor: the branch on contractValue > 0 left out
costFactorUnguarded(res) == FDiv(res.totalCosts, res.contractValue)

costFactor(res) ==
  IF FGt(res.contractValue, FromInt(0))
  THEN FDiv(res.totalCosts, res.contractValue)
  ELSE FromInt(0)

\* a faulty variant of factorRemainder: the cost factor taken for a percentage
factorRemainderOfHundred(cf) == FSub(FromInt(100), cf)

factorRemainder(cf) == FSub(FromInt(1), cf)

\* a faulty variant of requiredGross: the costs added as a markup on the net
\* income
requiredGrossByMarkup(dni, fr) == FMul(dni, FSub(FromInt(2), fr))

\* a faulty variant of requiredGross: the branch on factorRemainder > 0 left out
requiredGrossUnguarded(dni, fr) == FDiv(dni, fr)

requiredGross(dni, fr) ==
  IF FGt(fr, FromInt(0)) THEN FDiv(dni, fr) ELSE FromInt(0)

difference(rg, res) == FSub(rg, res.contractValue)

\* the inverse simulator: the body of the useMemo of `simulatorResults`
SimulatorResults(dni, res) ==
  LET Return(rg) == [requiredGross |-> rg, difference |-> difference(rg, res)]
  IN  Return(requiredGross(dni, factorRemainder(costFactor(res))))

\* a faulty variant of Render: riskLevel missing from the dependencies of the
\* useMemo of `results`
RenderWithoutRiskLevel(cv, rl, pct, dni) ==
  LET same == <<cv, pct>> = <<contractValue, contractualRiskPercent>>
  IN  /\ results' = IF same THEN results ELSE Results(cv, rl, pct)
      /\ simulatorResults' =
           IF same /\ dni = desiredNetIncome THEN simulatorResults
           ELSE SimulatorResults(dni, results')

\* a faulty variant of Render: `results` missing from the dependencies of the
\* useMemo of `simulatorResults`
RenderWithoutResults(cv, rl, pct, dni) ==
  LET same == <<cv, rl, pct>> = <<contractValue, riskLevel, contractualRiskPercent>>
  IN  /\ results' = IF same THEN results ELSE Results(cv, rl, pct)
      /\ simulatorResults' =
           IF dni = desiredNetIncome THEN simulatorResults
           ELSE SimulatorResults(dni, results')

\* one render with the state cv, rl, pct, dni: useMemo recomputes `results` when
\* one of [contractValue, riskLevel, contractualRiskPercent] is not the value of
\* the previous render, and `simulatorResults` when desiredNetIncome is not or
\* `results` was recomputed
Render(cv, rl, pct, dni) ==
  LET same == <<cv, rl, pct>> = <<contractValue, riskLevel, contractualRiskPercent>>
  IN  /\ results' = IF same THEN results ELSE Results(cv, rl, pct)
      /\ simulatorResults' =
           IF same /\ dni = desiredNetIncome THEN simulatorResults
           ELSE SimulatorResults(dni, results')

\* history: `snapshot` keeps the first evaluation and records in `others` that
\* the state has since held other inputs than those of that evaluation
Remember(cv, rl, pct) ==
  snapshot' =
    IF <<cv, rl, pct>> = <<snapshot.contractValue, snapshot.riskLevel,
                           snapshot.contractualRiskPercent>>
    THEN snapshot ELSE [snapshot EXCEPT !.others = TRUE]

\* what `results`, `simulatorResults` and `snapshot` hold before the first render
Unrendered == [k |-> "none"]

\* the state cells as useState creates them, before the first render
Init ==
  /\ contractValue = FromInt(3200000)
  /\ riskLevel = "I"
  /\ contractualRiskPercent = FromInt(10)
  /\ desiredNetIncome = FromInt(2800000)
  /\ rates = RateTable
  /\ results = Unrendered
  /\ simulatorResults = Unrendered
  /\ snapshot = Unrendered
  /\ pc = "init"
  /\ doc = <<>>

\* the first render: both useMemo bodies are evaluated
Mount ==
  /\ pc = "init"
  /\ results' = Results(contractValue, riskLevel, contractualRiskPercent)
  /\ simulatorResults' = SimulatorResults(desiredNetIncome, results')
  /\ snapshot' = [contractValue |-> contractValue, riskLevel |-> riskLevel,
                  contractualRiskPercent |-> contractualRiskPercent,
                  results |-> results', others |-> FALSE]
  /\ pc' = "render"
  /\ UNCHANGED <<contractValue, riskLevel, contractualRiskPercent, desiredNetIncome, rates, doc>>

\* texts of the contract value field (es-CO grouping); the first
\* NumContractTexts are typed
ContractTexts ==
  << <<>>,
     <<"5", ".", "0", "0", "0", ".", "0", "0", "0">>,
     <<"3", ".", "2", "0", "0", ".", "0", "0", "1">>,
     <<"$", " ", "7", "5", "0", ".", "0", "0", "0">>,
     <<"-", "3", ".", "2", "0", "0", ".", "0", "0", "0">>,
     <<"1", "2", ".", "3", "4", "5", ".", "6", "7", "8", ".", "9", "0", "1">> >>

NumContractTexts == 3

\* texts of the contractual risk field; the first NumRiskTexts are typed
RiskTexts ==
  << <<>>,
     <<"1", "2", ".", "3", "4">>,
     <<"2", "5">>,
     <<"-", "3">>,
     <<"a", "b", "c">>,
     <<"7", ".", "5">>,
     <<"1", "e", "1">> >>

NumRiskTexts == 5

\* texts of the desired net income field; the first NumDesiredTexts are typed
DesiredTexts ==
  << <<>>,
     <<"3", ".", "6", "1", "5", ".", "8", "0", "0">>,
     <<"4", ".", "0", "0", "0", ".", "0", "0", "0">>,
     <<"2", ".", "0", "7", "6", ".", "5", "1", "8">>,
     <<"1">> >>

NumDesiredTexts == 2

Typed(texts, n) == {texts[i] : i \in 1..Min(n, Len(texts))}

\* onChange of the contract value field: setContractValue(parseInputValue(text))
SetContractValue ==
  \E t \in Typed(ContractTexts, NumContractTexts) :
    /\ pc = "render"
    /\ contractValue' = parseInputValue(t)
    /\ Render(contractValue', riskLevel, contractualRiskPercent, desiredNetIncome)
    /\ Remember(contractValue', riskLevel, contractualRiskPercent)
    /\ UNCHANGED <<riskLevel, contractualRiskPercent, desiredNetIncome, rates, doc, pc>>

\* a faulty variant of SetRiskLevel: the percentage reset to its initial value
\* when a class is selected
SetRiskLevelResetting ==
  \E r \in RiskLevel :
    /\ pc = "render"
    /\ riskLevel' = r
    /\ contractualRiskPercent' = FromInt(10)
    /\ Render(contractValue, r, contractualRiskPercent', desiredNetIncome)
    /\ Remember(contractValue, r, contractualRiskPercent')
    /\ UNCHANGED <<contractValue, desiredNetIncome, rates, doc, pc>>

\* onChange of the risk level select and onClick of a risk guide button:
\* setRiskLevel(level)
SetRiskLevel ==
  \E r \in RiskLevel :
    /\ pc = "render"
    /\ riskLevel' = r
    /\ Render(contractValue, r, contractualRiskPercent, desiredNetIncome)
    /\ Remember(contractValue, r, contractualRiskPercent)
    /\ UNCHANGED <<contractValue, contractualRiskPercent, desiredNetIncome, rates, doc, pc>>

\* a faulty variant of IfNaN: NaN kept
IfNaNKept(val) == val

\* if (isNaN(val)) val = 0
IfNaN(val) == IF IsNaN(val) THEN FromInt(0) ELSE val

\* a faulty variant of IfAbove: the upper limit not applied
IfAboveUnlimited(val) == val

\* if (val > 20) val = 20
IfAbove(val) == IF FGt(val, FromInt(20)) THEN FromInt(20) ELSE val

\* if (val < 0) val = 0
IfBelow(val) == IF FLt(val, FromInt(0)) THEN FromInt(0) ELSE val

\* the value handleRiskChange(valStr) stores
ClampRisk(valStr) == IfBelow(IfAbove(IfNaN(parseFloat(valStr))))

\* onChange of the contractual risk field
handleRiskChange ==
  \E t \in Typed(RiskTexts, NumRiskTexts) :
    /\ pc = "render"
    /\ contractualRiskPercent' = ClampRisk(t)
    /\ Render(contractValue, riskLevel, contractualRiskPercent', desiredNetIncome)
    /\ Remember(contractValue, riskLevel, contractualRiskPercent')
    /\ UNCHANGED <<contractValue, riskLevel, desiredNetIncome, rates, doc, pc>>

\* the preset buttons Bajo (5%), Medio (10%), Alto (15%)
RiskPresets == {5, 10, 15}

\* onClick of a preset button: setContractualRiskPercent(preset.val)
SetRiskPreset ==
  \E v \in RiskPresets :
    /\ pc = "render"
    /\ contractualRiskPercent' = FromInt(v)
    /\ Render(contractValue, riskLevel, contractualRiskPercent', desiredNetIncome)
    /\ Remember(contractValue, riskLevel, contractualRiskPercent')
    /\ UNCHANGED <<contractValue, riskLevel, desiredNetIncome, rates, doc, pc>>

\* a faulty variant of SetDesiredNetIncome: the contract value the simulator
\* suggests is adopted as the contract value
SetDesiredNetIncomeAdopting ==
  \E t \in Typed(DesiredTexts, NumDesiredTexts) :
    /\ pc = "render"
    /\ desiredNetIncome' = parseInputValue(t)
    /\ contractValue' = SimulatorResults(desiredNetIncome', results).requiredGross
    /\ Render(contractValue', riskLevel, contractualRiskPercent, desiredNetIncome')
    /\ Remember(contractValue', riskLevel, contractualRiskPercent)
    /\ UNCHANGED <<riskLevel, contractualRiskPercent, rates, doc, pc>>

\* onChange of the desired net income field:
\* setDesiredNetIncome(parseInputValue(text))
SetDesiredNetIncome ==
  \E t \in Typed(DesiredTexts, NumDesiredTexts) :
    /\ pc = "render"
    /\ desiredNetIncome' = parseInputValue(t)
    /\ Render(contractValue, riskLevel, contractualRiskPercent, desiredNetIncome')
    /\ UNCHANGED <<contractValue, riskLevel, contractualRiskPercent, rates, doc, snapshot, pc>>

\* formatCurrency(val) and val.toFixed(1): the text is not computed, the cell
\* records the function and the Number it is applied to
formatCurrency(val) == [fn |-> "formatCurrency", val |-> val]

toFixed(val, digits) == [fn |-> "toFixed", val |-> val, digits |-> digits]

\* a cell that is a string literal, and one that is a template literal
Cell(str) == [fn |-> "string", val |-> str]

Template(parts) == [fn |-> "template", val |-> parts]

\* doc.text(text, x, y) at the font size set before it
Text(size, text) == [op |-> "text", size |-> size, text |-> text]

\* autoTable(doc, {head, body})
Table(head, body) == [op |-> "autoTable", head |-> head, body |-> body]

\* the header: title, date and version
ReportHeader(date) ==
  << Text(18, Cell("Reporte de Planeación Financiera - Contratistas")),
     Text(10, Template(<<"Fecha: ", date>>)),
     Text(10, Cell("Versión: 2026.1.0")) >>

\* 1. Executive Summary
ReportSummary ==
  << Text(12, Cell("Resumen Ejecutivo")),
     Table(<<"Concepto", "Valor">>,
           << <<Cell("Valor Bruto Facturado"), formatCurrency(results.contractValue)>>,
              <<Cell("Ingreso Neto Real Estimado"), formatCurrency(results.netIncome)>>,
              <<Cell("Porcentaje de Gastos y Deducciones"),
                toFixed(results.nonDisposablePercent, 1)>>,
              <<Cell("Eficiencia del Contrato"),
                toFixed(FSub(FromInt(100), results.nonDisposablePercent), 1)>> >>) >>

\* 2. Legal Contributions
ReportContributions ==
  << Text(12, Cell("Seguridad Social (Obligatorio)")),
     Table(<<"Concepto", "Base (IBC 40%)", "Valor">>,
           << <<Cell("Salud (12.5%)"), formatCurrency(results.ibc),
                formatCurrency(results.health)>>,
              <<Cell("Pensión (16%)"), formatCurrency(results.ibc),
                formatCurrency(results.pension)>>,
              <<Template(<<"ARL (Riesgo ", riskLevel, ")">>), formatCurrency(results.ibc),
                formatCurrency(results.arl)>>,
              <<Cell("Total Aportes"), Cell(""),
                formatCurrency(results.totalSocialSecurity)>> >>) >>

\* 3. Financial Provisions
ReportProvisions ==
  << Text(12, Cell("Provisiones Financieras (Sugerido)")),
     Table(<<"Concepto", "Tasa", "Valor">>,
           << <<Cell("Vacaciones"), Cell("4.17%"),
                formatCurrency(results.vacationProvision)>>,
              <<Cell("Cesantías + Intereses"), Cell("9.33%"),
                formatCurrency(results.severanceProvision)>>,
              <<Cell("Riesgo Contractual"), toFixed(contractualRiskPercent, 1),
                formatCurrency(results.contractualRiskProvision)>>,
              <<Cell("Total Reservas"), Cell(""),
                formatCurrency(results.totalProvisions)>> >>) >>

\* 4. Negotiation Simulator
ReportSimulation ==
  << Text(12, Cell("Simulador de Negociación")),
     Table(<<"Concepto", "Valor">>,
           << <<Cell("Ingreso Neto Mensual Deseado"), formatCurrency(desiredNetIncome)>>,
              <<Cell("Valor Sugerido de Contrato"),
                formatCurrency(simulatorResults.requiredGross)>>,
              <<Cell("Diferencia vs Actual"),
                Template(<<IF FGt(simulatorResults.difference, FromInt(0))
                           THEN "+" ELSE "",
                           formatCurrency(simulatorResults.difference)>>)>> >>) >>

\* 5. Legal Notes
ReportNotes ==
  << Text(12, Cell("Notas Legales")),
     Text(9, Cell("IBC: El Ingreso Base de Cotización (IBC) se calcula sobre el 40% del valor bruto del contrato.")),
     Text(9, Cell("ARL: Para contratos de prestación de servicios, el contratista es el responsable del pago de la ARL, salvo riesgos IV o V.")),
     Text(9, Cell("Las provisiones financieras son estimaciones sugeridas para cubrir prestaciones sociales no incluidas en contratos de servicios.")) >>

\* 6. Footer
ReportFooter ==
  << Text(8, Cell("Esta calculadora es una herramienta de referencia. Los valores pueden variar según normativas locales o cambios en la ley tributaria")),
     Text(8, Cell("© 2026 - Herramienta de Planificación Financiera para Contratistas en Colombia")) >>

\* a faulty variant of Report: the simulation placed before the contributions
ReportSimulationFirst(date) ==
  ReportHeader(date) \o ReportSummary \o ReportSimulation \o ReportContributions
    \o ReportProvisions \o ReportNotes \o ReportFooter

\* what generateReport writes to the document, in the order of the calls
Report(date) ==
  ReportHeader(date) \o ReportSummary \o ReportContributions \o ReportProvisions
    \o ReportSimulation \o ReportNotes \o ReportFooter

\* values of new Date().toLocaleDateString('es-CO')
Dates == {"1/11/2026", "2/11/2026"}

\* onClick of the report button: generateReport() builds the document from the
\* values of the current render and saves it; it calls no state setter
generateReport ==
  \E date \in Dates :
    /\ pc = "render"
    /\ doc' = Report(date)
    /\ UNCHANGED <<contractValue, riskLevel, contractualRiskPercent, desiredNetIncome,
                   results, simulatorResults, rates, snapshot, pc>>

Next ==
  \/ Mount
  \/ SetContractValue
  \/ SetRiskLevel
  \/ handleRiskChange
  \/ SetRiskPreset
  \/ SetDesiredNetIncome

Spec == Init /\ [][Next]_vars

\* texts of the contract value field at the limits of the parser and of the
\* arithmetic: 310 digits, and an amount whose net income is a whole number
EdgeContractTexts ==
  << [i \in 1..310 |-> "9"],
     <<"1", "0", "0", ".", "0", "0", "0">>,
     <<"2", "0", "0", ".", "0", "0", "0">> >>

NumEdgeContractTexts == 2

\* texts of the desired net income field: the net income of 100.000 with
\* class IV and 10 %, and amounts next to it
EdgeDesiredTexts ==
  << <<"6", "3", ".", "3", "6", "0">>,
     <<"6", "3", ".", "3", "6", "1">>,
     <<"6", "3", ".", "3", "5", "9">> >>

NumEdgeDesiredTexts == 2

\* onChange of the contract value field with one of these texts
EdgeSetContractValue ==
  \E t \in Typed(EdgeContractTexts, NumEdgeContractTexts) :
    /\ pc = "render"
    /\ contractValue' = parseInputValue(t)
    /\ Render(contractValue', riskLevel, contractualRiskPercent, desiredNetIncome)
    /\ Remember(contractValue', riskLevel, contractualRiskPercent)
    /\ UNCHANGED <<riskLevel, contractualRiskPercent, desiredNetIncome, rates, doc, pc>>

\* onChange of the desired net income field with one of these texts
EdgeSetDesiredNetIncome ==
  \E t \in Typed(EdgeDesiredTexts, NumEdgeDesiredTexts) :
    /\ pc = "render"
    /\ desiredNetIncome' = parseInputValue(t)
    /\ Render(contractValue, riskLevel, contractualRiskPercent, desiredNetIncome')
    /\ UNCHANGED <<contractValue, riskLevel, contractualRiskPercent, rates, doc,
                   snapshot, pc>>

\* the application with these texts typed in the two amount fields
EdgeNext ==
  \/ Mount
  \/ EdgeSetContractValue
  \/ SetRiskLevel
  \/ handleRiskChange
  \/ SetRiskPreset
  \/ EdgeSetDesiredNetIncome

EdgeSpec == Init /\ [][EdgeNext]_vars

\* the application with the report button: the risk class and the desired net
\* income are edited, reports are saved between the edits
ReportNext ==
  \/ Mount
  \/ SetRiskLevel
  \/ SetDesiredNetIncome
  \/ generateReport

ReportSpec == Init /\ [][ReportNext]_vars

----------------------------------------------------------------------------
(* The two calculators called directly, as the functions                   *)
(* compute(contractValue, riskLevel, contractualRiskPercent) and           *)
(* simulate(desiredNetIncome, results) that the two useMemo bodies are     *)

\* monetary amounts passed as contractValue; the first NumEngineAmounts are used
EngineAmounts ==
  << <<"3", "2", "0", "0", "0", "0", "0">>,
     <<"0">>,
     <<"3", "2", "0", "0", "0", "0", "0", ".", "0", "1">>,
     <<"1", "2", "3", "4", "5", "6", "7", ".", "8", "9">>,
     <<"5", "0", "0", "0", "0", "0", "0">>,
     <<"9", "9", "9", "9", "9", "9", "9", "9", "9", "9", "9", "9", "9", "9", "9">> >>

NumEngineAmounts == 4

\* percentages of [0, 20] passed as contractualRiskPercent
EnginePercents ==
  << <<"1", "0">>,
     <<"0">>,
     <<"2", "0">>,
     <<"1", "2", ".", "3", "4">>,
     <<"7", ".", "5">> >>

NumEnginePercents == 3

\* monetary amounts passed as desiredNetIncome
EngineDesired ==
  << <<"2", "8", "0", "0", "0", "0", "0">>,
     <<"0">>,
     <<"1", "0", "0", "0", "0", "0", ".", "5">>,
     <<"1">> >>

NumEngineDesired == 2

\* the Numbers that the first n decimal texts denote
Amounts(texts, n) == {parseFloat(t) : t \in Typed(texts, n)}

\* the inputs of a first call, nothing evaluated yet
EngineInit ==
  /\ contractValue \in Amounts(EngineAmounts, NumEngineAmounts)
  /\ riskLevel \in RiskLevel
  /\ contractualRiskPercent \in Amounts(EnginePercents, NumEnginePercents)
  /\ desiredNetIncome = FromInt(0)
  /\ rates = RateTable
  /\ results = Unrendered
  /\ simulatorResults = Unrendered
  /\ snapshot = Unrendered
  /\ pc = "input"
  /\ doc = <<>>

\* the evaluation that `results` holds, with its inputs
Evaluation ==
  [contractValue |-> contractValue, riskLevel |-> riskLevel,
   contractualRiskPercent |-> contractualRiskPercent, results |-> results,
   others |-> FALSE]

\* compute(contractValue, riskLevel, contractualRiskPercent)
Compute ==
  /\ pc = "input"
  /\ results' = Results(contractValue, riskLevel, contractualRiskPercent)
  /\ pc' = "computed"
  /\ UNCHANGED <<contractValue, riskLevel, contractualRiskPercent, desiredNetIncome,
                 simulatorResults, rates, doc, snapshot>>

\* a second call with another contract value, the rest unchanged
ComputeOther ==
  \E b \in Amounts(EngineAmounts, NumEngineAmounts) \ {contractValue} :
    /\ pc = "computed"
    /\ snapshot' = Evaluation
    /\ contractValue' = b
    /\ results' = Results(b, riskLevel, contractualRiskPercent)
    /\ pc' = "compared"
    /\ UNCHANGED <<riskLevel, contractualRiskPercent, desiredNetIncome,
                   simulatorResults, rates, doc>>

\* simulate(d, results)
Simulate ==
  \E d \in Amounts(EngineDesired, NumEngineDesired) :
    /\ pc = "computed"
    /\ desiredNetIncome' = d
    /\ simulatorResults' = SimulatorResults(d, results)
    /\ pc' = "simulated"
    /\ UNCHANGED <<contractValue, riskLevel, contractualRiskPercent, results,
                   rates, doc, snapshot>>

\* simulate(results.netIncome, results)
RoundTrip ==
  /\ pc = "computed"
  /\ desiredNetIncome' = results.netIncome
  /\ simulatorResults' = SimulatorResults(results.netIncome, results)
  /\ pc' = "roundtrip"
  /\ UNCHANGED <<contractValue, riskLevel, contractualRiskPercent, results,
                 rates, doc, snapshot>>

\* compute(simulatorResults.requiredGross, riskLevel, contractualRiskPercent)
ComputeSuggested ==
  /\ pc \in {"simulated", "roundtrip"}
  /\ snapshot' = Evaluation
  /\ contractValue' = simulatorResults.requiredGross
  /\ results' = Results(contractValue', riskLevel, contractualRiskPercent)
  /\ pc' = "suggested"
  /\ UNCHANGED <<riskLevel, contractualRiskPercent, desiredNetIncome,
                 simulatorResults, rates, doc>>

EngineNext ==
  \/ Compute
  \/ ComputeOther
  \/ Simulate
  \/ RoundTrip
  \/ ComputeSuggested

EngineSpec == EngineInit /\ [][EngineNext]_vars

----------------------------------------------------------------------------
(* The two calculators called directly with arguments that the fields of   *)
(* the application never produce: the compiled functions accept any Number *)
(* and any string                                                          *)

\* Numbers passed as contractValue; the first NumDirectAmounts are used
DirectAmounts ==
  << <<"3", "2", "0", "0", "0", "0", "0">>,
     <<"-", "3", "2", "0", "0", "0", "0", "0">>,
     <<"-", "0", ".", "0", "1">>,
     <<"0">> >>

NumDirectAmounts == 2

\* strings passed as riskLevel: the members of RiskLevel and one that is not
DirectLevels == RiskLevel \cup {"VI"}

\* Numbers passed as contractualRiskPercent
DirectPercents ==
  << <<"1", "0">>,
     <<"2", "5">>,
     <<"-", "5">>,
     <<"1", "0", "0">>,
     <<"8", "0">>,
     <<"2", "0", ".", "0", "1">> >>

NumDirectPercents == 4

\* Numbers passed as desiredNetIncome
DirectDesired ==
  << <<"2", "8", "0", "0", "0", "0", "0">>,
     <<"-", "2", "8", "0", "0", "0", "0", "0">>,
     <<"0">> >>

NumDirectDesired == 2

\* the arguments of a first call, nothing evaluated yet
DirectInit ==
  /\ contractValue \in Amounts(DirectAmounts, NumDirectAmounts)
  /\ riskLevel \in DirectLevels
  /\ contractualRiskPercent \in Amounts(DirectPercents, NumDirectPercents)
  /\ desiredNetIncome = FromInt(0)
  /\ rates = RateTable
  /\ results = Unrendered
  /\ simulatorResults = Unrendered
  /\ snapshot = Unrendered
  /\ pc = "input"
  /\ doc = <<>>

\* simulate(d, results)
DirectSimulate ==
  \E d \in Amounts(DirectDesired, NumDirectDesired) :
    /\ pc = "computed"
    /\ desiredNetIncome' = d
    /\ simulatorResults' = SimulatorResults(d, results)
    /\ pc' = "simulated"
    /\ UNCHANGED <<contractValue, riskLevel, contractualRiskPercent, results,
                   rates, doc, snapshot>>

DirectNext ==
  \/ Compute
  \/ DirectSimulate

DirectSpec == DirectInit /\ [][DirectNext]_vars

----------------------------------------------------------------------------
(* src/unnamed/part_000: the version of App without the simulator, whose   *)
(* contract value field is a number input                                  *)

RECURSIVE TrimEnd(_)
TrimEnd(t) ==
  IF t # <<>> /\ t[Len(t)] = " " THEN TrimEnd(SubSeq(t, 1, Len(t) - 1)) ELSE t

\* is the whole of t a decimal literal: an optional sign, digits with an
\* optional fraction or a fraction alone, an optional exponent
IsDecimalLiteral(t) ==
  LET AllDigits(u) == u # <<>> /\ LeadingDigits(u) = u
      Exponent(w) ==
        \/ w = <<>>
        \/ /\ StartsWith(w, "e") \/ StartsWith(w, "E")
           /\ AllDigits(IF StartsWith(Tail(w), "-") \/ StartsWith(Tail(w), "+")
                        THEN Tail(Tail(w)) ELSE Tail(w))
      Fraction(int, v, frac) ==
        /\ int # <<>> \/ frac # <<>>
        /\ Exponent(IF StartsWith(v, ".") THEN Drop(v, Len(frac) + 1) ELSE v)
      Point(int, v) ==
        Fraction(int, v, IF StartsWith(v, ".") THEN LeadingDigits(Tail(v)) ELSE <<>>)
      Integer(u, int) == Point(int, Drop(u, Len(int)))
      Unsigned(u) == Integer(u, LeadingDigits(u))
  IN  Unsigned(IF StartsWith(t, "-") \/ StartsWith(t, "+") THEN Tail(t) ELSE t)

\* Number(text): 0 for a text that is empty or blank, the value of the text when
\* the whole of it is a decimal literal, NaN for the other texts a number input
\* can hold
Number(text) ==
  LET Value(t) ==
        IF t = <<>> THEN FromInt(0)
        ELSE IF IsDecimalLiteral(t) THEN parseFloat(t)
        ELSE NaN
  IN  Value(TrimEnd(TrimStart(text)))

\* a faulty variant of Part000Results: the contractual risk fixed at 10 %
Part000ResultsOfFixedRisk(cv, rl, pct) == Results(cv, rl, FromInt(10))

\* the forward calculator of part_000, statement by statement (lines 19-35)
\* and the object it returns (lines 37-51)
Part000Results(cv, rl, pct) ==
  LET Object(base, h, p, a, v, s, c, tss, tp, tc) ==
        [contractValue |-> cv,
         ibc |-> base,
         health |-> h,
         pension |-> p,
         arl |-> a,
         vacationProvision |-> v,
         severanceProvision |-> s,
         contractualRiskProvision |-> c,
         totalSocialSecurity |-> tss,
         totalProvisions |-> tp,
         totalCosts |-> tc,
         netIncome |-> FSub(cv, tc),
         nonDisposablePercent |->
           IF FGt(cv, FromInt(0)) THEN FMul(FDiv(tc, cv), FromInt(100))
           ELSE FromInt(0)]
      Sums(base, h, p, a, v, s, c, tss, tp) ==
        Object(base, h, p, a, v, s, c, tss, tp, FAdd(tss, tp))
      Risk(base, h, p, a, v, s, c) ==
        Sums(base, h, p, a, v, s, c, FAdd(FAdd(h, p), a), FAdd(FAdd(v, s), c))
      Contributions(base) ==
        Risk(base,
             FMul(base, rates.HEALTH_RATE),
             FMul(base, rates.PENSION_RATE),
             FMul(base, ToNumber(Property(rates.ARL_RATES, rl))),
             FMul(cv, rates.VACATION_PROVISION_RATE),
             FMul(cv, rates.SEVERANCE_PROVISION_RATE),
             FMul(cv, FDiv(pct, FromInt(100))))
  IN  Contributions(FMul(cv, rates.IBC_PERCENTAGE))

\* the value handleRiskChange of part_000 stores (lines 63-69)
Part000ClampRisk(valStr) ==
  LET Below(val) == IF FLt(val, FromInt(0)) THEN FromInt(0) ELSE val
      Above(val) == Below(IF FGt(val, FromInt(20)) THEN FromInt(20) ELSE val)
      Parsed(val) == Above(IF IsNaN(val) THEN FromInt(0) ELSE val)
  IN  Parsed(parseFloat(valStr))

\* one render of part_000: useMemo recomputes `results` when one of
\* [contractValue, riskLevel, contractualRiskPercent] is not the value of the
\* previous render
Part000Render(cv, rl, pct) ==
  results' =
    IF <<cv, rl, pct>> = <<contractValue, riskLevel, contractualRiskPercent>>
    THEN results ELSE Part000Results(cv, rl, pct)

\* the state cells as useState creates them; part_000 has no desiredNetIncome
\* and no simulatorResults
Part000Init ==
  /\ contractValue = FromInt(5000000)
  /\ riskLevel = "I"
  /\ contractualRiskPercent = FromInt(10)
  /\ desiredNetIncome = Unrendered
  /\ rates = RateTable
  /\ results = Unrendered
  /\ simulatorResults = Unrendered
  /\ snapshot = Unrendered
  /\ pc = "init"
  /\ doc = <<>>

\* the first render
Part000Mount ==
  /\ pc = "init"
  /\ results' = Part000Results(contractValue, riskLevel, contractualRiskPercent)
  /\ pc' = "render"
  /\ UNCHANGED <<contractValue, riskLevel, contractualRiskPercent, desiredNetIncome,
                 simulatorResults, rates, doc, snapshot>>

\* values of the contract value field, an input of type number without min:
\* the empty text or a decimal literal; the first NumNumberTexts are typed
NumberTexts ==
  << <<>>,
     <<"-", "3", "2", "0", "0", "0", "0", "0">>,
     <<"3", "2", "0", "0", "0", "0", "0">>,
     <<"-", "0", ".", "5">>,
     <<"1", "e", "3">> >>

NumNumberTexts == 3

\* onChange of the contract value field: setContractValue(Number(e.target.value))
Part000SetContractValue ==
  \E t \in Typed(NumberTexts, NumNumberTexts) :
    /\ pc = "render"
    /\ contractValue' = Number(t)
    /\ Part000Render(contractValue', riskLevel, contractualRiskPercent)
    /\ UNCHANGED <<riskLevel, contractualRiskPercent, desiredNetIncome,
                   simulatorResults, rates, doc, snapshot, pc>>

\* onChange of the risk level select: setRiskLevel(e.target.value)
Part000SetRiskLevel ==
  \E r \in RiskLevel :
    /\ pc = "render"
    /\ riskLevel' = r
    /\ Part000Render(contractValue, r, contractualRiskPercent)
    /\ UNCHANGED <<contractValue, contractualRiskPercent, desiredNetIncome,
                   simulatorResults, rates, doc, snapshot, pc>>

\* onChange of the contractual risk field: handleRiskChange(e.target.value)
Part000HandleRiskChange ==
  \E t \in Typed(RiskTexts, NumRiskTexts) :
    /\ pc = "render"
    /\ contractualRiskPercent' = Part000ClampRisk(t)
    /\ Part000Render(contractValue, riskLevel, contractualRiskPercent')
    /\ UNCHANGED <<contractValue, riskLevel, desiredNetIncome,
                   simulatorResults, rates, doc, snapshot, pc>>

\* onClick of a preset button: setContractualRiskPercent(preset.val)
Part000SetRiskPreset ==
  \E v \in RiskPresets :
    /\ pc = "render"
    /\ contractualRiskPercent' = FromInt(v)
    /\ Part000Render(contractValue, riskLevel, contractualRiskPercent')
    /\ UNCHANGED <<contractValue, riskLevel, desiredNetIncome,
                   simulatorResults, rates, doc, snapshot, pc>>

Part000Next ==
  \/ Part000Mount
  \/ Part000SetContractValue
  \/ Part000SetRiskLevel
  \/ Part000HandleRiskChange
  \/ Part000SetRiskPreset

Part000Spec == Part000Init /\ [][Part000Next]_vars

----------------------------------------------------------------------------
(* Properties                                                              *)

\* x * n, not rounded: n a natural number
ExactTimes(x, n) == Canon(x.neg, BMul(x.m, BFromInt(n)), x.e)

\* x * y, not rounded
ExactMul(x, y) == Canon(x.neg # y.neg, BMul(x.m, y.m), x.e + y.e)

\* |d| * 10^k <= |y|
Negligible(d, y, k) ==
  IsFin(d) /\ IsFin(y) /\ CmpMag(ExactTimes(d, 10^k), y) <= 0

\* x = y * n / 10^p within 10^-9 of that product, n / 10^p a decimal rate
IsProduct(x, y, n, p) == Within(ExactTimes(x, 10^p), ExactTimes(y, n), 9)

\* a forward result has been computed from inputs of the documented domain:
\* contractValue >= 0 and 0 <= contractualRiskPercent <= 20
ValidResult ==
  /\ results # Unrendered
  /\ FGe(contractValue, FromInt(0))
  /\ FGe(contractualRiskPercent, FromInt(0))
  /\ FLe(contractualRiskPercent, FromInt(20))

\* C1: for every contractValue >= 0, risk class and contractualRiskPercent in
\* [0, 20] the result satisfies totalSocialSecurity = health + pension + arl,
\* totalProvisions = vacationProvision + severanceProvision +
\* contractualRiskProvision, totalCosts = totalSocialSecurity + totalProvisions
\* and netIncome + totalCosts = contractValue; each sum is the Number sum and
\* each equality is equality of Numbers
C1_SumIdentities ==
  ValidResult =>
    /\ results.totalSocialSecurity =
         FAdd(FAdd(results.health, results.pension), results.arl)
    /\ results.totalProvisions =
         FAdd(FAdd(results.vacationProvision, results.severanceProvision),
              results.contractualRiskProvision)
    /\ results.totalCosts = FAdd(results.totalSocialSecurity, results.totalProvisions)
    /\ FAdd(results.netIncome, results.totalCosts) = results.contractValue

\* a result with costs of both kinds and a fractional percentage
C1_Witness ==
  /\ ValidResult
  /\ contractValue = FromInt(5000000)
  /\ riskLevel = "III"
  /\ contractualRiskPercent = Literal(1234, 2)
  /\ FGt(results.totalSocialSecurity, FromInt(0))
  /\ FGt(results.totalProvisions, FromInt(0))
  /\ FLt(results.netIncome, results.contractValue)

\* the rate of each risk class in units of 10^-5
ArlPerHundredThousand(rl) ==
  CASE rl = "I" -> 522 [] rl = "II" -> 1044 [] rl = "III" -> 2436
    [] rl = "IV" -> 4350 [] rl = "V" -> 6960

\* C2: each monetary field of the result is the product of contractValue and
\* its fixed rate, with no rounding by the engine: ibc = contractValue x 0.40,
\* health = ibc x 0.125, pension = ibc x 0.16, arl = contractValue x 0.40 x
\* ARL_RATES[riskClass], vacationProvision = contractValue x 0.0417,
\* severanceProvision = contractValue x 0.0933, contractualRiskProvision =
\* contractValue x contractualRiskPercent / 100. The six fixed-rate fields are
\* the Number products, evaluated left to right, and every field is within
\* 10^-9 (relative) of the product of the decimal rates
C2_ExactProducts ==
  ValidResult =>
    LET cv == results.contractValue
    IN  /\ results.ibc = FMul(cv, Literal(40, 2))
        /\ results.health = FMul(results.ibc, Literal(125, 3))
        /\ results.pension = FMul(results.ibc, Literal(16, 2))
        /\ results.arl =
             FMul(FMul(cv, Literal(40, 2)),
                  Literal(ArlPerHundredThousand(riskLevel), 5))
        /\ results.vacationProvision = FMul(cv, Literal(417, 4))
        /\ results.severanceProvision = FMul(cv, Literal(933, 4))
        /\ IsProduct(results.ibc, cv, 40, 2)
        /\ IsProduct(results.health, cv, 40 * 125, 5)
        /\ IsProduct(results.pension, cv, 40 * 16, 4)
        /\ IsProduct(results.arl, cv, 40 * ArlPerHundredThousand(riskLevel), 7)
        /\ IsProduct(results.vacationProvision, cv, 417, 4)
        /\ IsProduct(results.severanceProvision, cv, 933, 4)
        /\ Within(ExactTimes(results.contractualRiskProvision, 100),
                  ExactMul(cv, contractualRiskPercent), 9)

\* a result whose products are not whole numbers
C2_Witness ==
  /\ ValidResult
  /\ contractValue = FromInt(3200001)
  /\ riskLevel = "V"
  /\ contractualRiskPercent = FromInt(15)
  /\ results.arl # FromInt(89088)
  /\ FGt(results.arl, FromInt(89088))
  /\ FLt(results.arl, FromInt(89089))

\* C3: when contractValue = 0, for every risk class and every
\* contractualRiskPercent, every field of the result is 0, nonDisposablePercent
\* included: it is the 0 of the explicit branch, never the NaN of 0 / 0
C3_ZeroContract ==
  (results # Unrendered /\ IsZero(contractValue)) =>
    /\ \A f \in DOMAIN results : results[f] = FromInt(0)
    /\ ~IsNaN(results.nonDisposablePercent)

\* a result for contractValue = 0 with the highest class and percentage
C3_Witness ==
  /\ results # Unrendered
  /\ contractValue = FromInt(0)
  /\ riskLevel = "V"
  /\ contractualRiskPercent = FromInt(20)
  /\ results.nonDisposablePercent = FromInt(0)

\* C4: round trip. For every valid input with contractValue > 0, the simulator
\* run with desiredNetIncome = results.netIncome yields requiredGross equal to
\* results.contractValue within 10^-6 (relative), and so a difference that is 0
\* at that tolerance: |difference| <= 10^-6 x contractValue
C4_RoundTrip ==
  (pc = "roundtrip" /\ FGt(results.contractValue, FromInt(0))) =>
    /\ desiredNetIncome = results.netIncome
    /\ Within(simulatorResults.requiredGross, results.contractValue, 6)
    /\ simulatorResults.difference =
         FSub(simulatorResults.requiredGross, results.contractValue)
    /\ Negligible(simulatorResults.difference, results.contractValue, 6)

\* the round trip of the result for 3,200,000, class I, 10 %
C4_Witness ==
  /\ pc = "roundtrip"
  /\ contractValue = FromInt(3200000)
  /\ riskLevel = "I"
  /\ contractualRiskPercent = FromInt(10)
  /\ desiredNetIncome = Literal(20765184, 1)
  /\ FGt(simulatorResults.requiredGross, FromInt(3199999))
  /\ FLt(simulatorResults.requiredGross, FromInt(3200001))

\* C5: the suggested contract value reaches the target. For every
\* desiredNetIncome >= 0 and every current result with contractValue > 0, the
\* forward calculator run on contractValue = requiredGross with the same risk
\* class and contractualRiskPercent yields netIncome equal to desiredNetIncome,
\* within 10^-9 (relative)
C5_SuggestedReachesTarget ==
  (pc = "suggested" /\ FGt(snapshot.contractValue, FromInt(0))) =>
    /\ results.contractValue = simulatorResults.requiredGross
    /\ riskLevel = snapshot.riskLevel
    /\ contractualRiskPercent = snapshot.contractualRiskPercent
    /\ FGe(desiredNetIncome, FromInt(0))
    /\ Within(results.netIncome, desiredNetIncome, 9)

\* the forward result for the contract value suggested for a net income of
\* 2,800,000, from the result for 3,200,000, class I, 10 %
C5_Witness ==
  /\ pc = "suggested"
  /\ snapshot.contractValue = FromInt(3200000)
  /\ riskLevel = "I"
  /\ contractualRiskPercent = FromInt(10)
  /\ desiredNetIncome = FromInt(2800000)
  /\ contractValue = simulatorResults.requiredGross
  /\ FGt(contractValue, FromInt(4000000))
  /\ FGt(results.netIncome, FromInt(2799999))

\* C6: for a fixed risk class and contractualRiskPercent, the cost ratio
\* totalCosts / contractValue, and so nonDisposablePercent, is the same for
\* every contractValue > 0, within 10^-9 (relative): as exact quotients, as the
\* Numbers that costFactor computes and as nonDisposablePercent
C6_CostRatioInvariant ==
  (/\ pc = "compared"
   /\ FGt(contractValue, FromInt(0))
   /\ FGt(snapshot.contractValue, FromInt(0))) =>
    /\ riskLevel = snapshot.riskLevel
    /\ contractualRiskPercent = snapshot.contractualRiskPercent
    /\ Within(ExactMul(results.totalCosts, snapshot.contractValue),
              ExactMul(snapshot.results.totalCosts, contractValue), 9)
    /\ Within(costFactor(results), costFactor(snapshot.results), 9)
    /\ Within(results.nonDisposablePercent,
              snapshot.results.nonDisposablePercent, 9)

\* two results for distinct positive contract values, class IV, 20 %
C6_Witness ==
  /\ pc = "compared"
  /\ snapshot.contractValue = FromInt(3200000)
  /\ contractValue = Literal(123456789, 2)
  /\ riskLevel = "IV"
  /\ contractualRiskPercent = FromInt(20)
  /\ FGt(results.totalCosts, FromInt(0))
  /\ results.totalCosts # snapshot.results.totalCosts

\* C7: for a fixed risk class and contractualRiskPercent whose cost ratio is
\* below 1, netIncome is strictly increasing in contractValue: for monetary
\* amounts 0 <= a < b, netIncome(a) < netIncome(b)
C7_NetIncomeIncreasing ==
  (/\ pc = "compared"
   /\ FLt(costFactor(results), FromInt(1))
   /\ FLt(costFactor(snapshot.results), FromInt(1))) =>
    /\ riskLevel = snapshot.riskLevel
    /\ contractualRiskPercent = snapshot.contractualRiskPercent
    /\ FLt(snapshot.contractValue, contractValue) =>
         FLt(snapshot.results.netIncome, results.netIncome)
    /\ FLt(contractValue, snapshot.contractValue) =>
         FLt(results.netIncome, snapshot.results.netIncome)

\* the results for 3,200,000 and 3,200,000.01, class V, 20 %
C7_Witness ==
  /\ pc = "compared"
  /\ snapshot.contractValue = FromInt(3200000)
  /\ contractValue = Literal(320000001, 2)
  /\ riskLevel = "V"
  /\ contractualRiskPercent = FromInt(20)
  /\ FLt(costFactor(results), FromInt(1))
  /\ FLt(snapshot.results.netIncome, results.netIncome)

\* C8: the forward calculator is a pure function of contractValue, riskClass,
\* contractualRiskPercent and the rate table: whenever the state holds the
\* inputs of the first evaluation again, whatever was evaluated in between,
\* `results` is the result of the first evaluation in every field
C8_Pure ==
  (/\ results # Unrendered
   /\ contractValue = snapshot.contractValue
   /\ riskLevel = snapshot.riskLevel
   /\ contractualRiskPercent = snapshot.contractualRiskPercent) =>
    /\ results = snapshot.results
    /\ \A f \in DOMAIN results : results[f] = snapshot.results[f]

\* the inputs of the first evaluation, held again after other inputs and after
\* the simulator ran for another desired net income
C8_Witness ==
  /\ results # Unrendered
  /\ snapshot.others
  /\ contractValue = snapshot.contractValue
  /\ riskLevel = snapshot.riskLevel
  /\ contractualRiskPercent = snapshot.contractualRiskPercent
  /\ desiredNetIncome # FromInt(2800000)
  /\ results = snapshot.results

\* C9: for contractValue = 3,200,000, class I and contractualRiskPercent = 10
\* (the initial state) the result is ibc = 1,280,000; health = 160,000;
\* pension = 204,800; arl = 6,681.6 within 10^-9 (relative);
\* totalSocialSecurity = 371,481.6; vacationProvision = 133,440;
\* severanceProvision = 298,560; contractualRiskProvision = 320,000;
\* totalProvisions = 752,000; totalCosts = 1,123,481.6; netIncome =
\* 2,076,518.4; nonDisposablePercent = 35.11 to two decimals. The amounts other
\* than arl are the Numbers nearest to the decimals
C9_InitialScenario ==
  (/\ results # Unrendered
   /\ contractValue = FromInt(3200000)
   /\ riskLevel = "I"
   /\ contractualRiskPercent = FromInt(10)) =>
    /\ results.ibc = FromInt(1280000)
    /\ results.health = FromInt(160000)
    /\ results.pension = FromInt(204800)
    /\ Within(results.arl, Literal(66816, 1), 9)
    /\ results.totalSocialSecurity = Literal(3714816, 1)
    /\ results.vacationProvision = FromInt(133440)
    /\ results.severanceProvision = FromInt(298560)
    /\ results.contractualRiskProvision = FromInt(320000)
    /\ results.totalProvisions = FromInt(752000)
    /\ results.totalCosts = Literal(11234816, 1)
    /\ results.netIncome = Literal(20765184, 1)
    /\ FGe(results.nonDisposablePercent, Literal(35105, 3))
    /\ FLt(results.nonDisposablePercent, Literal(35115, 3))

\* the state after the first render
C9_Witness ==
  /\ pc = "render"
  /\ ~snapshot.others
  /\ contractValue = FromInt(3200000)
  /\ riskLevel = "I"
  /\ contractualRiskPercent = FromInt(10)
  /\ results.contractValue = FromInt(3200000)
  /\ results.netIncome = Literal(20765184, 1)

\* C10: for contractValue = 5,000,000, class V and contractualRiskPercent = 0
\* the result has arl = 139,200 and contractualRiskProvision = 0
C10_ClassVScenario ==
  (/\ results # Unrendered
   /\ contractValue = FromInt(5000000)
   /\ riskLevel = "V"
   /\ contractualRiskPercent = FromInt(0)) =>
    /\ results.arl = FromInt(139200)
    /\ results.contractualRiskProvision = FromInt(0)

\* the result for 5,000,000, class V, 0 %
C10_Witness ==
  /\ pc = "render"
  /\ contractValue = FromInt(5000000)
  /\ riskLevel = "V"
  /\ contractualRiskPercent = FromInt(0)
  /\ results.ibc = FromInt(2000000)
  /\ results.arl = FromInt(139200)

\* the state holds the initial scenario: 3,200,000, class I, 10 %, with a
\* desired net income of 2,800,000, and both calculators have been evaluated
InitialScenario ==
  /\ pc = "render"
  /\ contractValue = FromInt(3200000)
  /\ riskLevel = "I"
  /\ contractualRiskPercent = FromInt(10)
  /\ desiredNetIncome = FromInt(2800000)

\* C11 as stated: in the initial scenario requiredGross is 4,313,778 and
\* difference is 1,113,778, within 10^-6 (relative)
C11_AsStated ==
  InitialScenario =>
    /\ Within(simulatorResults.requiredGross, FromInt(4313778), 6)
    /\ Within(simulatorResults.difference, FromInt(1113778), 6)

\* C11, amended: in the initial scenario the simulator yields requiredGross =
\* 2,800,000 / (1 - 0.351088) = 4,314,914.81 and difference = 1,114,914.81,
\* within 10^-6 (relative), and difference is requiredGross - 3,200,000
C11_InitialSimulation ==
  InitialScenario =>
    /\ Within(simulatorResults.requiredGross, Literal(431491481, 2), 6)
    /\ Within(simulatorResults.difference, Literal(111491481, 2), 6)
    /\ simulatorResults.difference =
         FSub(simulatorResults.requiredGross, FromInt(3200000))

\* the state after the first render, the simulator evaluated
C11_Witness ==
  /\ InitialScenario
  /\ ~snapshot.others
  /\ FGt(simulatorResults.requiredGross, FromInt(4314914))
  /\ FLt(simulatorResults.requiredGross, FromInt(4314915))

\* the fields of a result that are NaN
NaNFields(res) == {f \in DOMAIN res : IsNaN(res[f])}

\* C12: a call with a risk class that is not one of I..V is rejected: no result
\* is produced for it, be it defaulted, zero or NaN
C12_UnknownClassRejected ==
  riskLevel \notin RiskLevel => results = Unrendered

\* what the code returns for the class "VI": a result whose arl, totals,
\* netIncome and nonDisposablePercent are NaN
C12_NaNResult ==
  /\ pc = "computed"
  /\ riskLevel = "VI"
  /\ contractValue = FromInt(3200000)
  /\ NaNFields(results) = {"arl", "totalSocialSecurity", "totalCosts",
                            "netIncome", "nonDisposablePercent"}

\* x < 0
Negative(x) == FLt(x, FromInt(0))

\* C13: a negative contractValue is rejected or clamped to 0: no result with a
\* negative contractValue, negative costs or a negative netIncome is produced
\* for it
C13_NegativeContractRejected ==
  Negative(contractValue) =>
    \/ results = Unrendered
    \/ /\ ~Negative(results.contractValue)
       /\ ~Negative(results.totalCosts)
       /\ ~Negative(results.netIncome)

\* what the code returns for -3,200,000: the result of 3,200,000 with every
\* amount negated
C13_NegatedResult ==
  /\ pc = "computed"
  /\ contractValue = FNeg(FromInt(3200000))
  /\ riskLevel = "I"
  /\ contractualRiskPercent = FromInt(10)
  /\ results.contractValue = FNeg(FromInt(3200000))
  /\ results.totalCosts = FNeg(Literal(11234816, 1))
  /\ results.netIncome = FNeg(Literal(20765184, 1))
  /\ results.nonDisposablePercent = FromInt(0)

\* C14: a call with a contractualRiskPercent outside [0, 20] is rejected: no
\* result is produced for it
C14_PercentOutOfRangeRejected ==
  (Negative(contractualRiskPercent) \/ FGt(contractualRiskPercent, FromInt(20)))
    => results = Unrendered

\* what the code returns for 3,200,000, class I, 25 %: a provision of 800,000
C14_ResultOutOfRange ==
  /\ pc = "computed"
  /\ contractValue = FromInt(3200000)
  /\ contractualRiskPercent = FromInt(25)
  /\ results.contractualRiskProvision = FromInt(800000)

\* C15: a negative desiredNetIncome is rejected or clamped: the simulator
\* produces no negative requiredGross for it
C15_NegativeDesiredRejected ==
  Negative(desiredNetIncome) =>
    \/ simulatorResults = Unrendered
    \/ ~Negative(simulatorResults.requiredGross)

\* what the code returns for -2,800,000 after 3,200,000, class I, 10 %: the
\* requiredGross of 2,800,000 negated
C15_NegatedGross ==
  /\ pc = "simulated"
  /\ desiredNetIncome = FNeg(FromInt(2800000))
  /\ results.contractValue = FromInt(3200000)
  /\ riskLevel = "I"
  /\ contractualRiskPercent = FromInt(10)
  /\ Within(simulatorResults.requiredGross, FNeg(Literal(431491481, 2)), 6)

\* C18: after any sequence of edits contractValue and desiredNetIncome are
\* non-negative, and the forward calculator has not been evaluated with a
\* negative amount
C18_InputsNonNegative ==
  /\ ~Negative(contractValue)
  /\ desiredNetIncome = Unrendered \/ ~Negative(desiredNetIncome)
  /\ results = Unrendered \/ ~Negative(results.contractValue)

\* what part_000 holds after -3200000 is typed in the contract value field
C18_NegativeTyped ==
  /\ pc = "render"
  /\ contractValue = FNeg(FromInt(3200000))
  /\ results.contractValue = contractValue
  /\ Negative(results.netIncome)

\* x is the Number of the decimal n / 10^p: x * 10^p is n within 10^-15
\* (relative), which no other decimal of up to 15 digits satisfies
IsRate(x, n, p) ==
  /\ Within(ExactTimes(x, 10^p), FromInt(n), 15)
  /\ FGe(x, FromInt(0))
  /\ FLe(x, FromInt(1))

\* C16: in every state the rate table holds 0.40, 0.125, 0.16, the ARL rates
\* 0.00522, 0.01044, 0.02436, 0.04350, 0.06960 for exactly the five classes
\* I..V, 0.0417 and 0.0933; every rate is in [0, 1]; no operation changes one
C16_RateTable ==
  /\ DOMAIN rates = {"IBC_PERCENTAGE", "HEALTH_RATE", "PENSION_RATE", "ARL_RATES",
                     "VACATION_PROVISION_RATE", "SEVERANCE_PROVISION_RATE"}
  /\ IsRate(rates.IBC_PERCENTAGE, 40, 2)
  /\ IsRate(rates.HEALTH_RATE, 125, 3)
  /\ IsRate(rates.PENSION_RATE, 16, 2)
  /\ DOMAIN rates.ARL_RATES = {"I", "II", "III", "IV", "V"}
  /\ Cardinality(DOMAIN rates.ARL_RATES) = 5
  /\ IsRate(rates.ARL_RATES["I"], 522, 5)
  /\ IsRate(rates.ARL_RATES["II"], 1044, 5)
  /\ IsRate(rates.ARL_RATES["III"], 2436, 5)
  /\ IsRate(rates.ARL_RATES["IV"], 4350, 5)
  /\ IsRate(rates.ARL_RATES["V"], 6960, 5)
  /\ IsRate(rates.VACATION_PROVISION_RATE, 417, 4)
  /\ IsRate(rates.SEVERANCE_PROVISION_RATE, 933, 4)

\* a state after edits of every input, the table read by both calculators for
\* a class other than the initial one
C16_Witness ==
  /\ pc = "render"
  /\ snapshot.others
  /\ riskLevel = "IV"
  /\ contractValue # FromInt(3200000)
  /\ contractualRiskPercent = FromInt(15)
  /\ desiredNetIncome # FromInt(2800000)
  /\ results.arl = FMul(results.ibc, rates.ARL_RATES["IV"])
  /\ results.vacationProvision = FMul(contractValue, rates.VACATION_PROVISION_RATE)

\* C17: in every state of the application, whatever was typed in the risk field
\* (nothing, text that is no number, a negative value, a value above 20) and
\* whichever preset was clicked, contractualRiskPercent is a Number of [0, 20]
C17_RiskPercentInRange ==
  /\ FGe(contractualRiskPercent, FromInt(0))
  /\ FLe(contractualRiskPercent, FromInt(20))

\* the state after 25 is typed in the risk field: the percentage is 20 and the
\* provision a fifth of the contract value
C17_Witness ==
  /\ pc = "render"
  /\ contractualRiskPercent = FromInt(20)
  /\ contractualRiskPercent = ClampRisk(<<"2", "5">>)
  /\ ClampRisk(<<"-", "3">>) = FromInt(0)
  /\ ClampRisk(<<"a", "b", "c">>) = FromInt(0)
  /\ contractValue = FromInt(5000000)
  /\ results.contractualRiskProvision = FromInt(1000000)

\* the legal limits of the contribution base as the modal "IBC" of the
\* application states them: 1 SMMLV ($1,750,905) and 25 SMMLV
MinimumWage == 1750905

MaximumWages == 25

\* C19: the contribution base of every result respects the limits the
\* application documents: it is no less than the minimum wage, 1,750,905, and
\* no more than 25 minimum wages
C19_BaseWithinLegalLimits ==
  results = Unrendered
    \/ /\ FGe(results.ibc, FromInt(MinimumWage))
       /\ FLe(results.ibc, FromInt(MaximumWages * MinimumWage))

\* what the code computes in the initial scenario: a base of 1,280,000, below
\* the minimum wage, on which health, pension and arl are charged
C19_BaseBelowMinimum ==
  /\ InitialScenario
  /\ results.ibc = FromInt(1280000)
  /\ FLt(results.ibc, FromInt(MinimumWage))
  /\ results.health = FromInt(160000)

\* C20: when the costs of the result are at least its contract value (a cost
\* ratio of 1 or more, a remainder of 0 or less), the simulator returns
\* requiredGross = 0 and difference = -contractValue, whatever the desired net
\* income: a result, not a quotient and not an error
C20_DegenerateRatio ==
  (/\ pc = "simulated"
   /\ FGt(results.contractValue, FromInt(0))
   /\ FGe(results.totalCosts, results.contractValue))
    => /\ simulatorResults.requiredGross = FromInt(0)
       /\ simulatorResults.difference = FNeg(results.contractValue)
       /\ DOMAIN simulatorResults = {"requiredGross", "difference"}

\* simulate(2800000, results) after compute(3200000, I, 100): the costs are
\* 1.251088 of the contract value
C20_Witness ==
  /\ pc = "simulated"
  /\ contractValue = FromInt(3200000)
  /\ riskLevel = "I"
  /\ contractualRiskPercent = FromInt(100)
  /\ desiredNetIncome = FromInt(2800000)
  /\ results.totalCosts = Literal(40034816, 1)
  /\ FGe(costFactor(results), FromInt(1))
  /\ simulatorResults.requiredGross = FromInt(0)
  /\ simulatorResults.difference = FNeg(FromInt(3200000))

\* C21: when the contractValue of the current result is 0, the simulator takes
\* the cost factor as 0 and returns requiredGross = desiredNetIncome and
\* difference = desiredNetIncome, whatever the class and the percentage
C21_ZeroContractSimulation ==
  (pc = "render" /\ results.contractValue = FromInt(0))
    => /\ simulatorResults.requiredGross = desiredNetIncome
       /\ simulatorResults.difference = desiredNetIncome

\* the contract value field cleared, class III, 20 %, 3.615.800 desired
C21_Witness ==
  /\ pc = "render"
  /\ contractValue = FromInt(0)
  /\ results.contractValue = FromInt(0)
  /\ riskLevel = "III"
  /\ contractualRiskPercent = FromInt(20)
  /\ desiredNetIncome = FromInt(3615800)
  /\ simulatorResults.requiredGross = FromInt(3615800)
  /\ simulatorResults.difference = FromInt(3615800)

\* C22: after any sequence of input changes the displayed result is the forward
\* calculator applied to the current contractValue, riskLevel and
\* contractualRiskPercent, and the displayed simulation is the simulator applied
\* to the current desiredNetIncome and that result: no figure is stale
C22_NothingStale ==
  pc = "render" =>
    /\ results = Results(contractValue, riskLevel, contractualRiskPercent)
    /\ simulatorResults = SimulatorResults(desiredNetIncome, results)

\* a state in which each of the four inputs has been changed from its initial
\* value
C22_Witness ==
  /\ pc = "render"
  /\ snapshot.others
  /\ contractValue = FromInt(5000000)
  /\ riskLevel = "V"
  /\ contractualRiskPercent = FromInt(15)
  /\ desiredNetIncome = FromInt(3615800)
  /\ results.contractValue = contractValue
  /\ results.arl = FromInt(139200)
  /\ results.contractualRiskProvision = FromInt(750000)
  /\ simulatorResults.difference =
       FSub(simulatorResults.requiredGross, FromInt(5000000))

\* C23: the simulator does not feed back into the forward calculator: a step
\* that changes desiredNetIncome leaves contractValue, riskLevel,
\* contractualRiskPercent and every field of `results` as they were; of what is
\* displayed only requiredGross and difference change
C23_NoFeedback ==
  [][desiredNetIncome' # desiredNetIncome =>
       /\ UNCHANGED <<contractValue, riskLevel, contractualRiskPercent, results>>
       /\ simulatorResults' = SimulatorResults(desiredNetIncome', results)]_vars

\* 3.615.800 typed as desired net income in the initial scenario: the result is
\* the one of the first render, requiredGross is 5,572,096.06
C23_Witness ==
  /\ pc = "render"
  /\ ~snapshot.others
  /\ desiredNetIncome = FromInt(3615800)
  /\ contractValue = FromInt(3200000)
  /\ results = snapshot.results
  /\ Within(simulatorResults.requiredGross, Literal(557209606, 2), 6)

\* the texts of a document written at the font size of the section titles
Headings(d) ==
  LET titles == SelectSeq(d, LAMBDA item : item.op = "text" /\ item.size = 12)
  IN  [i \in 1..Len(titles) |-> titles[i].text.val]

\* the table that follows the section title in a document
TableOf(d, title) ==
  d[(CHOOSE i \in 1..(Len(d) - 1) : d[i] = Text(12, Cell(title))) + 1]

\* C24: every run of the report generator writes the sections in the same
\* order, whatever the inputs: executive summary, mandatory contributions,
\* suggested provisions, negotiation simulation, legal notes, disclaimer; the
\* tables hold the figures of the current results, and the run changes no input
\* and no result
C24_ReportOrder ==
  [][doc' # doc =>
       /\ Headings(doc') = <<"Resumen Ejecutivo", "Seguridad Social (Obligatorio)",
                             "Provisiones Financieras (Sugerido)",
                             "Simulador de Negociación", "Notas Legales">>
       /\ [i \in 1..Len(doc') |-> IF doc'[i].op = "text" THEN doc'[i].size ELSE 0]
            = <<18, 10, 10, 12, 0, 12, 0, 12, 0, 12, 0, 12, 9, 9, 9, 8, 8>>
       /\ TableOf(doc', "Resumen Ejecutivo").body[2][2]
            = formatCurrency(results.netIncome)
       /\ TableOf(doc', "Seguridad Social (Obligatorio)").body[3]
            = <<Template(<<"ARL (Riesgo ", riskLevel, ")">>),
                formatCurrency(results.ibc), formatCurrency(results.arl)>>
       /\ TableOf(doc', "Provisiones Financieras (Sugerido)").body[4][3]
            = formatCurrency(results.totalProvisions)
       /\ TableOf(doc', "Simulador de Negociación").body[2][2]
            = formatCurrency(simulatorResults.requiredGross)
       /\ UNCHANGED <<contractValue, riskLevel, contractualRiskPercent,
                      desiredNetIncome, results, simulatorResults>>]_vars

\* a report saved after class V was selected and 3.615.800 typed as desired net
\* income, the inputs edited again since
C24_Witness ==
  /\ doc # <<>>
  /\ Len(doc) = 17
  /\ doc[7].body[3][1] = Template(<<"ARL (Riesgo ", "V", ")">>)
  /\ doc[7].body[3][3] = formatCurrency(FromInt(89088))
  /\ doc[11].body[1][2] = formatCurrency(FromInt(3615800))
  /\ doc[11].body[3][2].val[1] = "+"
  /\ riskLevel = "II"
  /\ desiredNetIncome = FromInt(0)

\* the percentage the claim C25 gives for a text of the risk field
ClampedAsStated(t) ==
  LET Stated(v) ==
        IF IsNaN(v) THEN FromInt(0)
        ELSE IF FGt(v, FromInt(20)) THEN FromInt(20)
        ELSE IF FLt(v, FromInt(0)) THEN FromInt(0)
        ELSE v
  IN  Stated(parseFloat(t))

\* C25: handleRiskChange stores 0 for a text that is no number, 20 for a value
\* above 20, 0 for a value below 0 and the value itself when it is in [0, 20];
\* a step that changes contractualRiskPercent stores such a value or a preset
\* and changes none of contractValue, riskLevel, desiredNetIncome
C25_Clamp ==
  /\ [](\A t \in Typed(RiskTexts, NumRiskTexts) : ClampRisk(t) = ClampedAsStated(t))
  /\ [][contractualRiskPercent' # contractualRiskPercent =>
          /\ contractualRiskPercent' \in
               {ClampedAsStated(t) : t \in Typed(RiskTexts, NumRiskTexts)}
                 \cup {FromInt(v) : v \in RiskPresets}
          /\ UNCHANGED <<contractValue, riskLevel, desiredNetIncome>>]_vars

\* 12.34 typed in the risk field of the initial scenario: the value is stored
\* as typed, the other inputs are the initial ones
C25_Witness ==
  /\ pc = "render"
  /\ contractualRiskPercent = Literal(1234, 2)
  /\ contractValue = FromInt(3200000)
  /\ riskLevel = "I"
  /\ desiredNetIncome = FromInt(2800000)
  /\ results.contractualRiskProvision = FromInt(394880)
  /\ ClampRisk(<<"2", "5">>) = FromInt(20)
  /\ ClampRisk(<<"-", "3">>) = FromInt(0)
  /\ ClampRisk(<<"a", "b", "c">>) = FromInt(0)
  /\ ClampRisk(<<>>) = FromInt(0)

\* C26: in every state of the application 0 <= nonDisposablePercent < 100 and
\* 0 <= netIncome <= contractValue, netIncome > 0 whenever contractValue > 0,
\* and the remainder the simulator divides by is positive: the branch for a
\* remainder <= 0 is not taken
C26_CostsBelowContract ==
  pc = "render" =>
    /\ FGe(results.nonDisposablePercent, FromInt(0))
    /\ FLt(results.nonDisposablePercent, FromInt(100))
    /\ FGe(results.netIncome, FromInt(0))
    /\ FLe(results.netIncome, results.contractValue)
    /\ FGt(results.contractValue, FromInt(0)) => FGt(results.netIncome, FromInt(0))
    /\ FGt(factorRemainder(costFactor(results)), FromInt(0))

\* what the code holds after 310 digits are typed in the contract value field:
\* parseInt returns Infinity, the costs are Infinity, netIncome and
\* nonDisposablePercent are NaN, and the simulator takes the branch for a
\* remainder that is not positive
C26_OverflowResult ==
  /\ pc = "render"
  /\ contractValue = Inf(FALSE)
  /\ results.totalCosts = Inf(FALSE)
  /\ IsNaN(results.netIncome)
  /\ IsNaN(results.nonDisposablePercent)
  /\ IsNaN(factorRemainder(costFactor(results)))
  /\ desiredNetIncome = FromInt(2800000)
  /\ simulatorResults.requiredGross = FromInt(0)

\* the amounts the desired net income field can deliver next
DesiredNext ==
  {parseInputValue(t) : t \in Typed(DesiredTexts, NumDesiredTexts)
                               \cup Typed(EdgeDesiredTexts, NumEdgeDesiredTexts)}

\* C29: in every state of the application requiredGross >= desiredNetIncome
\* >= 0, requiredGross is 0 exactly when desiredNetIncome is 0, a larger
\* desired net income has a larger requiredGross for the same result, and
\* difference is positive exactly when desiredNetIncome exceeds the netIncome
\* of the result
C29_SimulationOrdered ==
  pc = "render" =>
    /\ FGe(simulatorResults.requiredGross, desiredNetIncome)
    /\ FGe(desiredNetIncome, FromInt(0))
    /\ simulatorResults.requiredGross = FromInt(0) <=> desiredNetIncome = FromInt(0)
    /\ \A d \in DesiredNext :
         FLt(desiredNetIncome, d) =>
           FLt(simulatorResults.requiredGross, SimulatorResults(d, results).requiredGross)
    /\ FGt(simulatorResults.difference, FromInt(0))
         <=> FGt(desiredNetIncome, results.netIncome)

\* what the code holds for 100.000, class IV, 10 % and a desired net income of
\* 63.360, which is the netIncome of the result: requiredGross is
\* 100000.00000000001 and difference is positive
C29_PositiveForEqual ==
  /\ pc = "render"
  /\ contractValue = FromInt(100000)
  /\ riskLevel = "IV"
  /\ contractualRiskPercent = FromInt(10)
  /\ results.netIncome = FromInt(63360)
  /\ desiredNetIncome = results.netIncome
  /\ FGt(simulatorResults.requiredGross, FromInt(100000))
  /\ FGt(simulatorResults.difference, FromInt(0))
  /\ Within(simulatorResults.requiredGross, FromInt(100000), 15)

\* the fields of `results` named in fs are left as they were by the step
Kept(fs) == \A f \in fs : results'[f] = results[f]

\* C27: a step that changes the risk class leaves ibc, health, pension,
\* vacationProvision, severanceProvision, contractualRiskProvision and
\* totalProvisions unchanged; a step that changes contractualRiskPercent leaves
\* ibc, health, pension, arl, totalSocialSecurity, vacationProvision and
\* severanceProvision unchanged
C27_Frames ==
  [][pc = "render" =>
       /\ riskLevel' # riskLevel =>
            Kept({"ibc", "health", "pension", "vacationProvision",
                  "severanceProvision", "contractualRiskProvision", "totalProvisions"})
       /\ contractualRiskPercent' # contractualRiskPercent =>
            Kept({"ibc", "health", "pension", "arl", "totalSocialSecurity",
                  "vacationProvision", "severanceProvision"})]_vars

\* a state that differs from the first evaluation in the class and in the
\* percentage alone: arl and contractualRiskProvision are others, the base and
\* the fixed-rate fields are those of the first evaluation
C27_Witness ==
  /\ pc = "render"
  /\ snapshot.others
  /\ contractValue = snapshot.contractValue
  /\ riskLevel = "III"
  /\ contractualRiskPercent = FromInt(15)
  /\ results.arl # snapshot.results.arl
  /\ results.contractualRiskProvision # snapshot.results.contractualRiskProvision
  /\ \A f \in {"ibc", "health", "pension", "vacationProvision", "severanceProvision"} :
       results[f] = snapshot.results[f]

\* the position of a class in the order I, II, III, IV, V of the enumeration
ClassRank(rl) == CHOOSE i \in 1..5 : <<"I", "II", "III", "IV", "V">>[i] = rl

\* the percentages the risk field and the presets can store next
PercentNext ==
  {ClampRisk(t) : t \in Typed(RiskTexts, NumRiskTexts)}
    \cup {FromInt(v) : v \in RiskPresets}

\* C28: for the contract value > 0 and the percentage of the state, every
\* higher class has a larger arl, larger totalCosts and a smaller netIncome
\* than the result of the state; for the class of the state, every larger
\* percentage has a smaller netIncome
C28_Monotone ==
  (pc = "render" /\ FGt(contractValue, FromInt(0))) =>
    /\ \A r \in RiskLevel :
         ClassRank(r) > ClassRank(riskLevel) =>
           LET Higher(res) ==
                 /\ FGt(res.arl, results.arl)
                 /\ FGt(res.totalCosts, results.totalCosts)
                 /\ FLt(res.netIncome, results.netIncome)
           IN  Higher(Results(contractValue, r, contractualRiskPercent))
    /\ \A p \in PercentNext :
         FGt(p, contractualRiskPercent) =>
           FLt(Results(contractValue, riskLevel, p).netIncome, results.netIncome)

\* 5.000.000 with class IV and 12.34 %: class V and the percentages 15 and 20
\* are above the state, with arl 139,200 against 87,000
C28_Witness ==
  /\ pc = "render"
  /\ contractValue = FromInt(5000000)
  /\ riskLevel = "IV"
  /\ contractualRiskPercent = Literal(1234, 2)
  /\ results.arl = FromInt(87000)
  /\ Results(contractValue, "V", contractualRiskPercent).arl = FromInt(139200)
  /\ FLt(Results(contractValue, "V", contractualRiskPercent).netIncome,
         results.netIncome)
  /\ FLt(Results(contractValue, riskLevel, FromInt(15)).netIncome, results.netIncome)

\* C30: in every rendered state of App.tsx the result is the object that the
\* calculator of part_000 returns for the same contract value, class and
\* percentage, all thirteen fields; the two handlers of the risk field store
\* the same value for every text, and for no text a value outside of [0, 20]
C30_SameCalculator ==
  /\ pc = "render" =>
       /\ DOMAIN results =
            DOMAIN Part000Results(contractValue, riskLevel, contractualRiskPercent)
       /\ \A f \in DOMAIN results :
            results[f] =
              Part000Results(contractValue, riskLevel, contractualRiskPercent)[f]
  /\ \A t \in Typed(RiskTexts, NumRiskTexts) :
       /\ ClampRisk(t) = Part000ClampRisk(t)
       /\ FGe(ClampRisk(t), FromInt(0))
       /\ FLe(ClampRisk(t), FromInt(20))

\* 5.000.000 with class III and 12.34 %, the percentage typed in the risk field:
\* both calculators give arl = 48,720 and the same netIncome
C30_Witness ==
  /\ pc = "render"
  /\ contractValue = FromInt(5000000)
  /\ riskLevel = "III"
  /\ contractualRiskPercent = Literal(1234, 2)
  /\ contractualRiskPercent = Part000ClampRisk(RiskTexts[2])
  /\ results.arl = FromInt(48720)
  /\ Cardinality(DOMAIN results) = 13
  /\ Part000Results(contractValue, riskLevel, contractualRiskPercent) = results

====
